---- MODULE Spec2Model ----
(***************************************************************************)
(* Word-ladder engine of githubDailyPractice.                              *)
(*                                                                         *)
(*   src/wordLadderDistanceMapping.py                                      *)
(*       WordTransformer, WordLadderGraph.distance (BFS + distance cache), *)
(*       WordLadderVisualizer._find_components           -> Spec           *)
(*       two threads calling distance() on one index     -> SpecRace       *)
(*   src/wordLadderPathExample.py                                          *)
(*       WordLadderFinder._generate_transformations, find_paths            *)
(*                                                       -> SpecPaths      *)
(*                                                                         *)
(* A word (a Python str) is a sequence of one-character strings.           *)
(***************************************************************************)
EXTENDS Integers, Sequences, FiniteSets, TLC

VARIABLES
    words,              \* WordLadderGraph.words / WordLadderFinder.dictionary
    allow_possessives,  \* WordTransformer.allow_possessives
    cache,              \* WordLadderGraph._distance_cache
    last,               \* the last distance() call served and what it returned
    nq,                 \* number of distance() calls served by the index
    comps,              \* result of the last _find_components() call
    fp_pc,              \* find_paths: "idle", "running" or "done"
    fp_start,           \* find_paths: starting_word
    fp_max_depth,       \* find_paths: max_depth
    fp_queue,           \* find_paths: queue of (word, path)
    fp_paths,           \* find_paths: paths map, word -> (min_length, paths_set)
    fp_out,             \* find_paths: the records printed so far, in order
    fp_expanded,        \* find_paths: the (word, depth) entries expanded so far
    fp_stale,           \* find_paths: whether a queue entry was discarded as stale
    threads             \* the distance() calls of two threads that share the index

vars == <<words, allow_possessives, cache, last, nq, comps,
          fp_pc, fp_start, fp_max_depth, fp_queue, fp_paths, fp_out, fp_expanded,
          fp_stale, threads>>

graphVars == <<cache, last, nq, comps>>

finderVars ==
    <<fp_pc, fp_start, fp_max_depth, fp_queue, fp_paths, fp_out, fp_expanded, fp_stale>>

(***************************************************************************)
(* Bounds of the model.                                                    *)
(***************************************************************************)
\* distance() calls served by one index before the model stops querying it
MaxQueries == 2

\* largest max_depth handed to find_paths
MaxDepth == 3

(***************************************************************************)
(* Characters and words.                                                   *)
(***************************************************************************)
\* the characters in code-point order: the apostrophe sorts before the letters
CharOrder ==
    <<"'", "a", "b", "c", "d", "e", "f", "g", "h", "i", "j", "k", "l", "m",
      "n", "o", "p", "q", "r", "s", "t", "u", "v", "w", "x", "y", "z">>

Ord(c) == CHOOSE i \in 1..Len(CharOrder) : CharOrder[i] = c

\* string.ascii_lowercase
alphabet == {CharOrder[i] : i \in 2..Len(CharOrder)}

\* the possessive suffix "'s"
Possessive == <<"'", "s">>

cat == <<"c", "a", "t">>

bat == <<"b", "a", "t">>

cot == <<"c", "o", "t">>

bot == <<"b", "o", "t">>

bots == <<"b", "o", "t", "s">>

cats == <<"c", "a", "t", "s">>

cat_s == <<"c", "a", "t", "'", "s">>

bat_s == <<"b", "a", "t", "'", "s">>

\* the words the dictionaries of the distance index are drawn from
GraphUniverse == {cat, cats, cat_s, bat_s}

\* the words the dictionaries of the path finder are drawn from
FinderUniverse == {cat, bat, cot, bot, bots, cats, cat_s}

Universe == GraphUniverse \cup FinderUniverse

\* every order in which Python may iterate the set S: the sequences that
\* list each element of S once
RECURSIVE IterOrders(_)
IterOrders(S) ==
    IF S = {} THEN {<<>>}
    ELSE UNION {{<<x>> \o rest : rest \in IterOrders(S \ {x})} : x \in S}

\* str comparison, as sorted() uses it
RECURSIVE StrLeq(_, _)
StrLeq(u, v) ==
    IF u = <<>> THEN TRUE
    ELSE IF v = <<>> THEN FALSE
    ELSE IF Head(u) = Head(v) THEN StrLeq(Tail(u), Tail(v))
    ELSE Ord(Head(u)) < Ord(Head(v))

(***************************************************************************)
(* WordTransformer                                                         *)
(***************************************************************************)
\* word[:position] + piece + word[position:]
InsertAt(word, position, piece) ==
    SubSeq(word, 1, position) \o piece \o SubSeq(word, position + 1, Len(word))

\* word[:position] + word[position+1:]
RemoveAt(word, position) ==
    SubSeq(word, 1, position) \o SubSeq(word, position + 2, Len(word))

\* word[:position] + piece + word[position+1:]
ChangeAt(word, position, piece) ==
    SubSeq(word, 1, position) \o piece \o SubSeq(word, position + 2, Len(word))

\* word.endswith("'s")
EndsWithPossessive(word) ==
    /\ Len(word) >= Len(Possessive)
    /\ SubSeq(word, Len(word) - Len(Possessive) + 1, Len(word)) = Possessive

generate_transformations(word, ap) ==
    LET toggled ==
            IF ap
            THEN IF EndsWithPossessive(word)
                 THEN {SubSeq(word, 1, Len(word) - Len(Possessive))}
                 ELSE {word \o Possessive}
            ELSE {}
        added == {InsertAt(word, p, <<l>>) : p \in 0..Len(word), l \in alphabet}
        removed == {RemoveAt(word, p) : p \in 0..(Len(word) - 1)}
        changed == {ChangeAt(word, p, <<l>>) : p \in 0..(Len(word) - 1), l \in alphabet}
    IN  toggled \cup added \cup removed \cup changed

\* generate_transformations is pure: its value on the words of the model,
\* tabulated once (the @@ makes the function an explicit table)
TransformerTable ==
    [p \in Universe \X BOOLEAN |-> generate_transformations(p[1], p[2])] @@ <<>>

\* self.transformer.generate_transformations(word)
transformations(word, ap) ==
    IF word \in Universe THEN TransformerTable[<<word, ap>>]
    ELSE generate_transformations(word, ap)

(***************************************************************************)
(* WordLadderGraph.distance                                                *)
(***************************************************************************)
Finite(d) == [fin |-> TRUE, d |-> d]

\* float('inf')
Unreachable == [fin |-> FALSE, d |-> 0]

EmptyCache == <<>>

\* mutant of cache_key: the pair is not sorted
cache_key_unsorted(word1, word2) == <<word1, word2>>

\* tuple(sorted([word1, word2]))
cache_key(word1, word2) ==
    IF StrLeq(word1, word2) THEN <<word1, word2>> ELSE <<word2, word1>>

\* the part of the iteration order ord that comes before the word w (all of
\* it when w is not in ord)
Before(ord, w) ==
    IF \E i \in 1..Len(ord) : ord[i] = w
    THEN SubSeq(ord, 1, (CHOOSE i \in 1..Len(ord) : ord[i] = w) - 1)
    ELSE ord

\* mutant of bfs_loop: a discovered word is queued with the distance of the
\* word it was discovered from
RECURSIVE bfs_loop_no_increment(_, _, _, _, _, _, _, _)
bfs_loop_no_increment(queue, seen, word2, dict, ap, ord, dequeued, enqueued) ==
    IF queue = <<>>
    THEN [ret |-> Unreachable, dequeued |-> dequeued, enqueued |-> enqueued]
    ELSE LET current_word == Head(queue)[1]
             current_distance == Head(queue)[2]
             T == transformations(current_word, ap)
         IN  IF word2 \in T
             THEN [ret |-> Finite(current_distance + 1),
                   dequeued |-> Append(dequeued, current_word),
                   enqueued |-> enqueued \o
                       SelectSeq(Before(ord, word2),
                                 LAMBDA w : w \in T /\ w \in dict /\ w \notin seen)]
             ELSE LET new == SelectSeq(ord, LAMBDA w : w \in T /\ w \in dict /\ w \notin seen)
                      items == [i \in 1..Len(new) |-> <<new[i], current_distance>>]
                  IN  bfs_loop_no_increment(Tail(queue) \o items,
                               seen \cup {new[i] : i \in 1..Len(new)},
                               word2, dict, ap, ord,
                               Append(dequeued, current_word),
                               enqueued \o new)

\* The while loop of distance(): queue holds (word, distance) pairs; ord is
\* the order in which the sets of this call are iterated.  dequeued and
\* enqueued log the words popped from and put in the queue: when word2 is
\* met, the words iterated before it have been queued already.
RECURSIVE bfs_loop(_, _, _, _, _, _, _, _)
bfs_loop(queue, seen, word2, dict, ap, ord, dequeued, enqueued) ==
    IF queue = <<>>
    THEN [ret |-> Unreachable, dequeued |-> dequeued, enqueued |-> enqueued]
    ELSE LET current_word == Head(queue)[1]
             current_distance == Head(queue)[2]
             T == transformations(current_word, ap)
         IN  IF word2 \in T
             THEN [ret |-> Finite(current_distance + 1),
                   dequeued |-> Append(dequeued, current_word),
                   enqueued |-> enqueued \o
                       SelectSeq(Before(ord, word2),
                                 LAMBDA w : w \in T /\ w \in dict /\ w \notin seen)]
             ELSE LET new == SelectSeq(ord, LAMBDA w : w \in T /\ w \in dict /\ w \notin seen)
                      items == [i \in 1..Len(new) |-> <<new[i], current_distance + 1>>]
                  IN  bfs_loop(Tail(queue) \o items,
                               seen \cup {new[i] : i \in 1..Len(new)},
                               word2, dict, ap, ord,
                               Append(dequeued, current_word),
                               enqueued \o new)

\* mutant of distance: the test that both words are in the dictionary is
\* missing
distance_without_membership_test(word1, word2, c, dict, ap, ord) ==
    LET cache_key_ == cache_key(word1, word2)
        NoBfs(r, h) == [ret |-> r, cache |-> c, bfs |-> FALSE, hit |-> h,
                        dequeued |-> <<>>, enqueued |-> <<>>]
    IN  IF cache_key_ \in DOMAIN c THEN NoBfs(c[cache_key_], TRUE)
        ELSE IF word1 = word2 THEN NoBfs(Finite(0), FALSE)
        ELSE LET r == bfs_loop(<< <<word1, 0>> >>, {word1}, word2, dict, ap, ord,
                               <<>>, <<word1>>)
             IN  [ret |-> r.ret,
                  cache |-> [k \in DOMAIN c \cup {cache_key_} |->
                                IF k = cache_key_ THEN r.ret ELSE c[k]],
                  bfs |-> TRUE, hit |-> FALSE,
                  dequeued |-> r.dequeued, enqueued |-> r.enqueued]

\* mutant of distance: the test that both words are in the dictionary comes
\* before the test that they are equal
distance_membership_test_first(word1, word2, c, dict, ap, ord) ==
    LET cache_key_ == cache_key(word1, word2)
        NoBfs(r, h) == [ret |-> r, cache |-> c, bfs |-> FALSE, hit |-> h,
                        dequeued |-> <<>>, enqueued |-> <<>>]
    IN  IF cache_key_ \in DOMAIN c THEN NoBfs(c[cache_key_], TRUE)
        ELSE IF word1 \notin dict \/ word2 \notin dict THEN NoBfs(Unreachable, FALSE)
        ELSE IF word1 = word2 THEN NoBfs(Finite(0), FALSE)
        ELSE LET r == bfs_loop(<< <<word1, 0>> >>, {word1}, word2, dict, ap, ord,
                               <<>>, <<word1>>)
             IN  [ret |-> r.ret,
                  cache |-> [k \in DOMAIN c \cup {cache_key_} |->
                                IF k = cache_key_ THEN r.ret ELSE c[k]],
                  bfs |-> TRUE, hit |-> FALSE,
                  dequeued |-> r.dequeued, enqueued |-> r.enqueued]

\* mutant of distance: writing a computed value starts the cache anew
distance_cache_reset_on_write(word1, word2, c, dict, ap, ord) ==
    LET cache_key_ == cache_key(word1, word2)
        NoBfs(r, h) == [ret |-> r, cache |-> c, bfs |-> FALSE, hit |-> h,
                        dequeued |-> <<>>, enqueued |-> <<>>]
    IN  IF cache_key_ \in DOMAIN c THEN NoBfs(c[cache_key_], TRUE)
        ELSE IF word1 = word2 THEN NoBfs(Finite(0), FALSE)
        ELSE IF word1 \notin dict \/ word2 \notin dict THEN NoBfs(Unreachable, FALSE)
        ELSE LET r == bfs_loop(<< <<word1, 0>> >>, {word1}, word2, dict, ap, ord,
                               <<>>, <<word1>>)
             IN  [ret |-> r.ret,
                  cache |-> [k \in {cache_key_} |-> r.ret],
                  bfs |-> TRUE, hit |-> FALSE,
                  dequeued |-> r.dequeued, enqueued |-> r.enqueued]

\* mutant of distance: the search starts with an empty visited set
distance_start_not_visited(word1, word2, c, dict, ap, ord) ==
    LET cache_key_ == cache_key(word1, word2)
        NoBfs(r, h) == [ret |-> r, cache |-> c, bfs |-> FALSE, hit |-> h,
                        dequeued |-> <<>>, enqueued |-> <<>>]
    IN  IF cache_key_ \in DOMAIN c THEN NoBfs(c[cache_key_], TRUE)
        ELSE IF word1 = word2 THEN NoBfs(Finite(0), FALSE)
        ELSE IF word1 \notin dict \/ word2 \notin dict THEN NoBfs(Unreachable, FALSE)
        ELSE LET r == bfs_loop(<< <<word1, 0>> >>, {}, word2, dict, ap, ord,
                               <<>>, <<word1>>)
             IN  [ret |-> r.ret,
                  cache |-> [k \in DOMAIN c \cup {cache_key_} |->
                                IF k = cache_key_ THEN r.ret ELSE c[k]],
                  bfs |-> TRUE, hit |-> FALSE,
                  dequeued |-> r.dequeued, enqueued |-> r.enqueued]

\* distance(word1, word2) on an index whose cache is c: the value returned
\* and the cache afterwards
distance(word1, word2, c, dict, ap, ord) ==
    LET cache_key_ == cache_key(word1, word2)
        NoBfs(r, h) == [ret |-> r, cache |-> c, bfs |-> FALSE, hit |-> h,
                        dequeued |-> <<>>, enqueued |-> <<>>]
    IN  IF cache_key_ \in DOMAIN c THEN NoBfs(c[cache_key_], TRUE)
        ELSE IF word1 = word2 THEN NoBfs(Finite(0), FALSE)
        ELSE IF word1 \notin dict \/ word2 \notin dict THEN NoBfs(Unreachable, FALSE)
        ELSE LET r == bfs_loop(<< <<word1, 0>> >>, {word1}, word2, dict, ap, ord,
                               <<>>, <<word1>>)
             IN  [ret |-> r.ret,
                  cache |-> [k \in DOMAIN c \cup {cache_key_} |->
                                IF k = cache_key_ THEN r.ret ELSE c[k]],
                  bfs |-> TRUE, hit |-> FALSE,
                  dequeued |-> r.dequeued, enqueued |-> r.enqueued]

(***************************************************************************)
(* WordLadderVisualizer._find_components                                   *)
(***************************************************************************)
\* The body of "for other in self.graph.words" for one other, on the loop
\* state st = (visited, component, queue, cache)
visit_other(current, other, st, dict, ap, ord) ==
    IF other \in st.visited THEN st
    ELSE LET r == distance(current, other, st.cache, dict, ap, ord)
         IN  IF r.ret # Unreachable
             THEN [visited |-> st.visited \cup {other},
                   component |-> st.component \cup {other},
                   queue |-> Append(st.queue, other),
                   cache |-> r.cache]
             ELSE [st EXCEPT !.cache = r.cache]

\* "for other in self.graph.words", from position i of the iteration order
RECURSIVE scan_others(_, _, _, _, _, _)
scan_others(current, i, st, dict, ap, ord) ==
    IF i > Len(ord) THEN st
    ELSE scan_others(current, i + 1, visit_other(current, ord[i], st, dict, ap, ord),
                     dict, ap, ord)

\* "while queue" of find_component
RECURSIVE find_component_loop(_, _, _, _)
find_component_loop(st, dict, ap, ord) ==
    IF st.queue = <<>> THEN st
    ELSE find_component_loop(
             scan_others(Head(st.queue), 1, [st EXCEPT !.queue = Tail(st.queue)],
                         dict, ap, ord),
             dict, ap, ord)

\* find_component(word, visited): visited is shared with the caller
find_component(word, visited, c, dict, ap, ord) ==
    find_component_loop([visited |-> visited, component |-> {word},
                         queue |-> <<word>>, cache |-> c],
                        dict, ap, ord)

\* "for word in self.graph.words" of _find_components, from position i
RECURSIVE find_components_from(_, _, _, _, _, _, _)
find_components_from(i, visited, components, c, dict, ap, ord) ==
    IF i > Len(ord) THEN [components |-> components, cache |-> c]
    ELSE IF ord[i] \in visited
    THEN find_components_from(i + 1, visited, components, c, dict, ap, ord)
    ELSE LET st == find_component(ord[i], visited \cup {ord[i]}, c, dict, ap, ord)
         IN  find_components_from(i + 1, st.visited, Append(components, st.component),
                                  st.cache, dict, ap, ord)

\* _find_components() on an index whose cache is c: the list of components
\* and the cache afterwards
find_components(c, dict, ap, ord) ==
    find_components_from(1, {}, <<>>, c, dict, ap, ord)

NoComponents == [done |-> FALSE, list |-> <<>>]

NoCall ==
    [op |-> "none", word1 |-> <<>>, word2 |-> <<>>, ret |-> Unreachable,
     bfs |-> FALSE, hit |-> FALSE]

\* the two threads that may call distance() on the index at the same time
Threads == {1, 2}

\* no thread has called distance()
NoThreads ==
    [t \in Threads |-> [pc |-> "idle", word1 |-> <<>>, word2 |-> <<>>,
                        ret |-> Unreachable]]

InitFinder ==
    /\ fp_pc = "idle"
    /\ fp_start = <<>>
    /\ fp_max_depth = 0
    /\ fp_queue = <<>>
    /\ fp_paths = <<>>
    /\ fp_out = <<>>
    /\ fp_expanded = <<>>
    /\ fp_stale = FALSE

\* WordTransformer(allow_possessives), WordLadderGraph(word_list, transformer)
Init ==
    /\ words \in SUBSET GraphUniverse
    /\ allow_possessives \in BOOLEAN
    /\ cache = EmptyCache
    /\ last = NoCall
    /\ nq = 0
    /\ comps = NoComponents
    /\ threads = NoThreads
    /\ InitFinder

\* graph.distance(word1, word2)
DistanceQuery(word1, word2) ==
    /\ nq < MaxQueries
    /\ \E ord \in IterOrders(words) :
          \E r \in {distance(word1, word2, cache, words, allow_possessives, ord)} :
              /\ cache' = r.cache
              /\ last' = [op |-> "distance", word1 |-> word1, word2 |-> word2,
                          ret |-> r.ret, bfs |-> r.bfs, hit |-> r.hit]
    /\ nq' = nq + 1
    /\ UNCHANGED <<words, allow_possessives, comps, threads>>
    /\ UNCHANGED finderVars

\* visualizer._find_components()
FindComponents ==
    /\ \E ord \in IterOrders(words) :
          \E r \in {find_components(cache, words, allow_possessives, ord)} :
              /\ cache' = r.cache
              /\ comps' = [done |-> TRUE, list |-> r.components]
    /\ UNCHANGED <<words, allow_possessives, last, nq, threads>>
    /\ UNCHANGED finderVars

Next ==
    \/ \E word1, word2 \in GraphUniverse : DistanceQuery(word1, word2)
    \/ FindComponents

Spec == Init /\ [][Next]_vars

(***************************************************************************)
(* Two threads calling distance() on one shared index.  A thread reads the *)
(* cache in one atomic step (lines 92-99) and, when it has to search,      *)
(* writes the value it found in a second one (lines 110 and 117); the      *)
(* search between the two touches nothing the threads share but the fixed  *)
(* dictionary.                                                             *)
(***************************************************************************)
\* both threads call distance() on the same unordered pair of dictionary
\* words: thread 1 distance(a, b), thread 2 distance(b, a) when swap holds
\* and distance(a, b) otherwise
RaceCall(a, b, swap) ==
    /\ nq + 2 <= MaxQueries
    /\ \A t \in Threads : threads[t].pc = "idle"
    /\ threads' = [t \in Threads |->
                      [pc |-> "called",
                       word1 |-> IF t = 2 /\ swap THEN b ELSE a,
                       word2 |-> IF t = 2 /\ swap THEN a ELSE b,
                       ret |-> Unreachable]]
    /\ nq' = nq + 2
    /\ UNCHANGED <<words, allow_possessives, cache, last, comps>>
    /\ UNCHANGED finderVars

\* thread t runs distance() up to the search: it returns what the cache
\* holds for the key, 0 for equal words, or goes on to search
RaceRead(t) ==
    /\ threads[t].pc = "called"
    /\ \E ord \in IterOrders(words) :
          \E r \in {distance(threads[t].word1, threads[t].word2, cache, words,
                             allow_possessives, ord)} :
              threads' = [threads EXCEPT ![t] =
                             IF r.bfs THEN [@ EXCEPT !.pc = "searching"]
                             ELSE [@ EXCEPT !.pc = "done", !.ret = r.ret]]
    /\ UNCHANGED <<words, allow_possessives, cache, last, nq, comps>>
    /\ UNCHANGED finderVars

\* thread t finishes its search, assigns the value it found to the cache key
\* and returns it
RaceSearchAndWrite(t) ==
    /\ threads[t].pc = "searching"
    /\ \E ord \in IterOrders(words) :
          \E r \in {distance(threads[t].word1, threads[t].word2, EmptyCache, words,
                             allow_possessives, ord)} :
              /\ cache' = r.cache @@ cache
              /\ threads' = [threads EXCEPT ![t] =
                                [@ EXCEPT !.pc = "done", !.ret = r.ret]]
    /\ UNCHANGED <<words, allow_possessives, last, nq, comps>>
    /\ UNCHANGED finderVars

NextRace ==
    \/ \E a, b \in words, swap \in BOOLEAN : RaceCall(a, b, swap)
    \/ \E t \in Threads : RaceRead(t)
    \/ \E t \in Threads : RaceSearchAndWrite(t)

SpecRace == Init /\ [][NextRace]_vars

(***************************************************************************)
(* WordLadderFinder                                                        *)
(***************************************************************************)
\* string.ascii_lowercase + ["'s"]: the pieces an addition or a change puts in
valid_additions == {<<l>> : l \in alphabet} \cup {Possessive}

finder_generate_transformations(word) ==
    LET added == {InsertAt(word, p, a) : p \in 0..Len(word), a \in valid_additions}
        removed == {RemoveAt(word, p) : p \in 0..(Len(word) - 1)}
        changed == {ChangeAt(word, p, a) : p \in 0..(Len(word) - 1), a \in valid_additions}
    IN  added \cup removed \cup changed

\* _generate_transformations is pure: its value on the words of the model,
\* tabulated once (the @@ makes the function an explicit table)
FinderTable ==
    [w \in Universe |-> finder_generate_transformations(w)] @@ <<>>

\* self._generate_transformations(word)
finder_transformations(word) ==
    IF word \in Universe THEN FinderTable[word]
    ELSE finder_generate_transformations(word)

\* paths[word] of the defaultdict: min_length is 0 for float('inf'), which
\* no path length equals
NoPaths == [inf |-> TRUE, min_length |-> 0, paths_set |-> {}]

paths_get(paths, word) ==
    IF word \in DOMAIN paths THEN paths[word] ELSE NoPaths

paths_put(paths, word, min_length, paths_set) ==
    [w \in DOMAIN paths \cup {word} |->
        IF w = word
        THEN [inf |-> FALSE, min_length |-> min_length, paths_set |-> paths_set]
        ELSE paths[w]]

\* mutant of dequeue: queue.pop() instead of queue.popleft()
dequeue_last(queue) ==
    [item |-> queue[Len(queue)], rest |-> SubSeq(queue, 1, Len(queue) - 1)]

\* queue.popleft()
dequeue(queue) == [item |-> Head(queue), rest |-> Tail(queue)]

\* mutant of is_stale: every entry is processed
is_stale_never(current_depth, entry) == FALSE

\* "if current_depth > min_depth: continue"
is_stale(current_depth, entry) ==
    ~entry.inf /\ current_depth > entry.min_length

\* mutant of emits_record: the starting word gets a record too
emits_record_for_start(depth) == depth >= 0

\* "if depth > 0": the starting word is printed without paths
emits_record(depth) == depth > 0

\* mutant of stops_expanding: words at max_depth are expanded
stops_expanding_late(depth, max_depth) == depth > max_depth

\* "if depth >= max_depth: continue"
stops_expanding(depth, max_depth) == depth >= max_depth

\* mutant of update_paths: a path of the same length replaces the set
update_paths_replacing(st, current_path, new_word) ==
    LET new_path == Append(current_path, new_word)
        new_depth == Len(new_path)
        entry == paths_get(st.paths, new_word)
    IN  IF entry.inf \/ new_depth < entry.min_length
        THEN [paths |-> paths_put(st.paths, new_word, new_depth, {new_path}),
              queue |-> Append(st.queue, [word |-> new_word, path |-> new_path])]
        ELSE IF new_depth = entry.min_length
        THEN [st EXCEPT !.paths = paths_put(st.paths, new_word, entry.min_length,
                                            {new_path})]
        ELSE st

\* mutant of update_paths: a longer path is added to the set as well
update_paths_keeping_longer(st, current_path, new_word) ==
    LET new_path == Append(current_path, new_word)
        new_depth == Len(new_path)
        entry == paths_get(st.paths, new_word)
    IN  IF entry.inf \/ new_depth < entry.min_length
        THEN [paths |-> paths_put(st.paths, new_word, new_depth, {new_path}),
              queue |-> Append(st.queue, [word |-> new_word, path |-> new_path])]
        ELSE [st EXCEPT !.paths = paths_put(st.paths, new_word, entry.min_length,
                                            entry.paths_set \cup {new_path})]

\* The body of "for new_word in ..." for a new_word of the dictionary, on
\* st = (paths, queue)
update_paths(st, current_path, new_word) ==
    LET new_path == Append(current_path, new_word)
        new_depth == Len(new_path)
        entry == paths_get(st.paths, new_word)
    IN  IF entry.inf \/ new_depth < entry.min_length
        THEN [paths |-> paths_put(st.paths, new_word, new_depth, {new_path}),
              queue |-> Append(st.queue, [word |-> new_word, path |-> new_path])]
        ELSE IF new_depth = entry.min_length
        THEN [st EXCEPT !.paths = paths_put(st.paths, new_word, entry.min_length,
                                            entry.paths_set \cup {new_path})]
        ELSE st

\* "for new_word in self._generate_transformations(current_word)", the
\* transformations that are in the dictionary taken in the order ord
RECURSIVE expand(_, _, _, _)
expand(st, current_path, ord, i) ==
    IF i > Len(ord) THEN st
    ELSE expand(update_paths(st, current_path, ord[i]), current_path, ord, i + 1)

\* the transformations of current_word that pass "if new_word in self.dictionary"
valid_transformations(current_word, dict) ==
    {new_word \in dict : new_word \in finder_transformations(current_word)}

NoRecord == <<>>

\* One iteration of "while queue" on (queue, paths): the state afterwards,
\* the record printed (if any) and whether the entry was expanded
find_paths_iteration(queue, paths, max_depth, dict, ord) ==
    LET popped == dequeue(queue)
        current_word == popped.item.word
        current_path == popped.item.path
        current_depth == Len(current_path)
        depth == Len(current_path) - 1
        record == IF emits_record(depth)
                  THEN <<[word |-> current_word, depth |-> depth,
                          paths |-> paths_get(paths, current_word).paths_set]>>
                  ELSE NoRecord
    IN  IF is_stale(current_depth, paths_get(paths, current_word))
        THEN [queue |-> popped.rest, paths |-> paths, printed |-> NoRecord,
              expanded |-> <<>>, stale |-> TRUE]
        ELSE IF stops_expanding(depth, max_depth)
        THEN [queue |-> popped.rest, paths |-> paths, printed |-> record,
              expanded |-> <<>>, stale |-> FALSE]
        ELSE LET st == expand([paths |-> paths, queue |-> popped.rest],
                              current_path, ord, 1)
             IN  [queue |-> st.queue, paths |-> st.paths, printed |-> record,
                  expanded |-> <<[word |-> current_word, depth |-> depth]>>,
                  stale |-> FALSE]

\* WordLadderFinder(dictionary)
InitPaths ==
    /\ words \in SUBSET FinderUniverse
    /\ allow_possessives = TRUE
    /\ cache = EmptyCache
    /\ last = NoCall
    /\ nq = 0
    /\ comps = NoComponents
    /\ threads = NoThreads
    /\ InitFinder

\* finder.find_paths(starting_word, max_depth), up to the first test of
\* "while queue"
FindPathsCall(starting_word, max_depth) ==
    /\ fp_pc \in {"idle", "done"}
    /\ fp_pc' = "running"
    /\ fp_start' = starting_word
    /\ fp_max_depth' = max_depth
    /\ fp_queue' = <<[word |-> starting_word, path |-> <<starting_word>>]>>
    /\ fp_paths' = paths_put(<<>>, starting_word, 1, {<<starting_word>>})
    /\ fp_out' = <<>>
    /\ fp_expanded' = <<>>
    /\ fp_stale' = FALSE
    /\ UNCHANGED <<words, allow_possessives, threads>>
    /\ UNCHANGED graphVars

\* one iteration of "while queue"; find_paths returns when the queue is empty
FindPathsStep ==
    /\ fp_pc = "running"
    /\ \E ord \in IterOrders(valid_transformations(dequeue(fp_queue).item.word, words)) :
          \E r \in {find_paths_iteration(fp_queue, fp_paths, fp_max_depth, words, ord)} :
              /\ fp_queue' = r.queue
              /\ fp_paths' = r.paths
              /\ fp_out' = fp_out \o r.printed
              /\ fp_expanded' = fp_expanded \o r.expanded
              /\ fp_stale' = (fp_stale \/ r.stale)
              /\ fp_pc' = IF r.queue = <<>> THEN "done" ELSE "running"
    /\ UNCHANGED <<fp_start, fp_max_depth, words, allow_possessives, threads>>
    /\ UNCHANGED graphVars

NextPaths ==
    \/ \E starting_word \in FinderUniverse, max_depth \in 0..MaxDepth :
          FindPathsCall(starting_word, max_depth)
    \/ FindPathsStep

SpecPaths == InitPaths /\ [][NextPaths]_vars

(***************************************************************************)
(* Ladders, defined without reference to the search.                       *)
(***************************************************************************)
\* p is a ladder through dict: every word is in dict and every word after
\* the first is in neighbors() of the word before it
IsLadder(p, dict, ap) ==
    /\ \A i \in 1..Len(p) : p[i] \in dict
    /\ \A i \in 1..(Len(p) - 1) : p[i + 1] \in transformations(p[i], ap)

\* the ladders of d edges (d + 1 words) from a to b through dict
Ladders(a, b, d, dict, ap) ==
    {p \in [1..(d + 1) -> dict] : p[1] = a /\ p[d + 1] = b /\ IsLadder(p, dict, ap)}

\* the lengths (in edges) of the ladders from a to b that repeat no word
LadderLengths(a, b, dict, ap) ==
    {d \in 0..(Cardinality(dict) - 1) : Ladders(a, b, d, dict, ap) # {}}

Minimum(S) == CHOOSE x \in S : \A y \in S : x <= y

\* what distance(a, b) has to return according to the ladders
LadderDistance(a, b, dict, ap) ==
    IF LadderLengths(a, b, dict, ap) = {} THEN Unreachable
    ELSE Finite(Minimum(LadderLengths(a, b, dict, ap)))

(***************************************************************************)
(* Claims about the distance index.                                        *)
(***************************************************************************)
\* C1: a distance(a, b) call on two distinct dictionary words that is not
\* answered from the cache (as every call on an empty cache) returns the
\* number of edges of a shortest ladder from a to b through the dictionary,
\* and Unreachable exactly when there is no ladder.
C1_DistanceIsShortestLadder ==
    (/\ last.op = "distance"
     /\ ~last.hit
     /\ last.word1 # last.word2
     /\ last.word1 \in words
     /\ last.word2 \in words)
    => last.ret = LadderDistance(last.word1, last.word2, words, allow_possessives)

\* the first query of a fresh index found a shortest ladder of three edges
C1_Witness ==
    /\ last.op = "distance"
    /\ nq = 1
    /\ ~comps.done
    /\ last.bfs
    /\ last.ret = Finite(3)

\* C3: the components returned by _find_components partition the dictionary
\* (every dictionary word in exactly one component, no foreign word, no empty
\* component), and a word with no neighbor in the dictionary is a singleton
\* component.
HasNoNeighborInDictionary(w) ==
    transformations(w, allow_possessives) \cap (words \ {w}) = {}

ComponentsPartitionDictionary ==
    /\ \A w \in words :
          Cardinality({i \in 1..Len(comps.list) : w \in comps.list[i]}) = 1
    /\ \A i \in 1..Len(comps.list) :
          comps.list[i] # {} /\ comps.list[i] \subseteq words

C3_ComponentsPartitionWithSingletons ==
    comps.done =>
        /\ ComponentsPartitionDictionary
        /\ \A w \in words :
              HasNoNeighborInDictionary(w)
                  => \E i \in 1..Len(comps.list) : comps.list[i] = {w}

\* the part of C3 the code keeps: the components partition the dictionary
C3_PartitionOnly ==
    comps.done => ComponentsPartitionDictionary

\* C4: after _find_components, two dictionary words are in the same
\* component if and only if distance() between them, asked on that index,
\* is finite.
SameComponent(a, b) ==
    \E i \in 1..Len(comps.list) : a \in comps.list[i] /\ b \in comps.list[i]

C4_SameComponentIffFiniteDistance ==
    comps.done =>
        \A a, b \in words : \A ord \in IterOrders(words) :
            SameComponent(a, b)
                <=> distance(a, b, cache, words, allow_possessives, ord).ret.fin

\* C5: distance(b, a) asked right after distance(a, b) on the same index
\* returns the value distance(a, b) returned, whatever the index served
\* before.
C5_DistanceSymmetricOnOneIndex ==
    last.op = "distance" =>
        \A ord \in IterOrders(words) :
            distance(last.word2, last.word1, cache, words, allow_possessives, ord).ret
                = last.ret

\* distance(a, b) was computed by a search and returned a finite value, and
\* a search from b finds no way to a: only the shared cache entry makes the
\* two calls agree
C5_Witness ==
    /\ last.op = "distance"
    /\ last.bfs
    /\ last.ret.fin
    /\ \A ord \in IterOrders(words) :
          distance(last.word2, last.word1, EmptyCache, words, allow_possessives, ord).ret
              = Unreachable

\* C6: whenever distance(a, b) returns a finite d for two distinct
\* dictionary words, a ladder of d + 1 dictionary words leads from a to b.
C6_FiniteDistanceHasLadder ==
    (/\ last.op = "distance"
     /\ last.ret.fin
     /\ last.word1 # last.word2
     /\ last.word1 \in words
     /\ last.word2 \in words)
    => Ladders(last.word1, last.word2, last.ret.d, words, allow_possessives) # {}

\* C10: a distance() call on two different words of which one is absent
\* from the dictionary returns Unreachable, runs no search and leaves the
\* cache as it was.
AbsentWordCall(call) ==
    /\ call.op = "distance"
    /\ call.word1 # call.word2
    /\ call.word1 \notin words \/ call.word2 \notin words

C10_AbsentWordUnreachable ==
    [][(nq' = nq + 1 /\ AbsentWordCall(last'))
          => (last'.ret = Unreachable /\ ~last'.bfs /\ ~last'.hit /\ cache' = cache)]_vars

\* such a call was served by an index whose cache already holds entries
C10_Witness ==
    /\ AbsentWordCall(last)
    /\ last.ret = Unreachable
    /\ DOMAIN cache # {}

\* C11: in every reachable cache state and for every word w, in the
\* dictionary or not, distance(w, w) returns 0, runs no search and leaves the
\* cache as it was; and every such call the index served returned 0 without
\* a search.
C11_SameWordIsZero ==
    /\ \A w \in Universe : \A ord \in IterOrders(words) :
          \E r \in {distance(w, w, cache, words, allow_possessives, ord)} :
              r.ret = Finite(0) /\ ~r.bfs /\ r.cache = cache
    /\ (last.op = "distance" /\ last.word1 = last.word2)
          => (last.ret = Finite(0) /\ ~last.bfs)

\* distance(w, w) was served for a word outside the dictionary by an index
\* whose cache already holds an entry
C11_Witness ==
    /\ last.op = "distance"
    /\ last.word1 = last.word2
    /\ last.word1 \notin words
    /\ last.ret = Finite(0)
    /\ DOMAIN cache # {}

\* C14: the neighbor relation of the Transformer is symmetric on the words
\* of the model (lowercase letters, optionally followed by 's): v is in
\* generate_transformations(u) if and only if u is in
\* generate_transformations(v).
C14_NeighborRelationSymmetric ==
    \A u, v \in Universe :
        (v \in transformations(u, allow_possessives))
            <=> (u \in transformations(v, allow_possessives))

\* C15: no step of the index (a distance query or a components
\* computation) removes a cache entry or changes its value, be it finite or
\* Unreachable.
C15_CacheEntriesPermanent ==
    [][\A k \in DOMAIN cache : k \in DOMAIN cache' /\ cache'[k] = cache[k]]_vars

\* the cache holds a finite and an Unreachable entry, and since they were
\* written the index has answered a query from the cache and computed the
\* components
C15_Witness ==
    /\ \E k \in DOMAIN cache : cache[k].fin
    /\ \E k \in DOMAIN cache : cache[k] = Unreachable
    /\ last.op = "distance"
    /\ last.hit
    /\ comps.done

\* C16: the value a distance(a, b) call returns, whatever the index served
\* before, is the value distance(a, b) returns on an index with an empty
\* cache over the same dictionary.
C16_CacheTransparent ==
    last.op = "distance" =>
        \A ord \in IterOrders(words) :
            last.ret
                = distance(last.word1, last.word2, EmptyCache, words,
                           allow_possessives, ord).ret

\* the distance(a, b) calls that run a search over the dictionary dict, for
\* every pair of its words and every iteration order: the search does not
\* read the cache, so these are the searches of every call on that index;
\* tabulated once
SearchTable ==
    [k \in (SUBSET GraphUniverse) \X BOOLEAN |->
        {distance(a, b, EmptyCache, k[1], k[2], ord) :
            a \in k[1], b \in k[1], ord \in IterOrders(k[1])}] @@ <<>>

\* no word occurs twice in the log
NoRepeat(log) ==
    \A i, j \in 1..Len(log) : log[i] = log[j] => i = j

\* C17: every distance() call on the dictionary of the index ends, its
\* search dequeues only dictionary words, each at most once and so at most
\* |dictionary| of them, and puts no word in the queue twice.
C17_SearchVisitsEachWordOnce ==
    \A r \in SearchTable[<<words, allow_possessives>>] :
        /\ NoRepeat(r.dequeued)
        /\ NoRepeat(r.enqueued)
        /\ \A i \in 1..Len(r.dequeued) : r.dequeued[i] \in words
        /\ Len(r.dequeued) <= Cardinality(words)
        /\ Len(r.enqueued) <= Cardinality(words)

\* the index served a call whose search emptied the queue after it had
\* dequeued several words
C17_Witness ==
    /\ last.op = "distance"
    /\ last.bfs
    /\ last.ret = Unreachable
    /\ \E ord \in IterOrders(words) :
          Len(distance(last.word1, last.word2, EmptyCache, words,
                       allow_possessives, ord).dequeued) >= 2

\* C20: when two threads have run distance() on the same unordered pair of
\* dictionary words interleaved on one index, both have returned the same
\* value, and a value one of them wrote for the key is the value the cache
\* holds for it.
C20_RaceIdempotent ==
    (\A t \in Threads : threads[t].pc = "done") =>
        \A t \in Threads :
            /\ threads[t].ret = threads[1].ret
            /\ LET key == cache_key(threads[t].word1, threads[t].word2)
               IN  key \in DOMAIN cache => cache[key] = threads[t].ret

(***************************************************************************)
(* Ladders of the path finder, defined without reference to the search.    *)
(***************************************************************************)
\* the ladders of d edges that start at start and go on through dict, under
\* the finder's transformations
RECURSIVE FinderLaddersFrom(_, _, _)
FinderLaddersFrom(start, d, dict) ==
    IF d = 0 THEN {<<start>>}
    ELSE UNION {{Append(p, w) : w \in {v \in dict : v \in finder_transformations(p[Len(p)])}} :
                   p \in FinderLaddersFrom(start, d - 1, dict)}

\* FinderLaddersFrom on the dictionaries, starting words and depths of the
\* model, tabulated once
FinderLadderTable ==
    [k \in (SUBSET FinderUniverse) \X FinderUniverse \X (0..MaxDepth) |->
        FinderLaddersFrom(k[2], k[3], k[1])] @@ <<>>

\* the ladders of d edges from start to w
FinderLadders(start, w, d, dict) ==
    {p \in FinderLadderTable[<<dict, start, d>>] : p[d + 1] = w}

\* the lengths up to maxd of the ladders from start to w
FinderLadderLengths(start, w, dict, maxd) ==
    {d \in 0..maxd : FinderLadders(start, w, d, dict) # {}}

\* all shortest ladders from start to w, among those of at most maxd edges
ShortestFinderLadders(start, w, dict, maxd) ==
    IF FinderLadderLengths(start, w, dict, maxd) = {} THEN {}
    ELSE FinderLadders(start, w, Minimum(FinderLadderLengths(start, w, dict, maxd)), dict)

\* the (word, depth) pairs find_paths(start, maxd) has to report: the
\* dictionary words other than start whose shortest ladder from start has
\* between 1 and maxd edges
ExpectedRecords(start, dict, maxd) ==
    {wd \in (dict \ {start}) \X (1..maxd) :
        /\ FinderLadderLengths(start, wd[1], dict, maxd) # {}
        /\ Minimum(FinderLadderLengths(start, wd[1], dict, maxd)) = wd[2]}

\* the (word, depth) pairs of the records printed so far
PrintedRecords == {<<fp_out[i].word, fp_out[i].depth>> : i \in 1..Len(fp_out)}

(***************************************************************************)
(* Claims about the path finder.                                           *)
(***************************************************************************)
\* C2: the path set of every record find_paths prints for a word w is the
\* set of all shortest ladders from the starting word to w.
C2_RecordsCarryAllShortestLadders ==
    \A i \in 1..Len(fp_out) :
        fp_out[i].paths
            = ShortestFinderLadders(fp_start, fp_out[i].word, words, fp_max_depth)

\* C7: for a starting word of the dictionary find_paths prints exactly one
\* record for each other dictionary word whose shortest ladder from the
\* start has 1..max_depth edges, with that length as depth; none for the
\* start, none for a word further away, and no word at depth max_depth is
\* expanded.
C7_RecordsAreWordsWithinMaxDepth ==
    (fp_pc # "idle" /\ fp_start \in words) =>
        /\ PrintedRecords \subseteq ExpectedRecords(fp_start, words, fp_max_depth)
        /\ \A i, j \in 1..Len(fp_out) : fp_out[i].word = fp_out[j].word => i = j
        /\ \A i \in 1..Len(fp_expanded) : fp_expanded[i].depth < fp_max_depth
        /\ fp_pc = "done" =>
              PrintedRecords = ExpectedRecords(fp_start, words, fp_max_depth)

\* a finished run from a dictionary word that printed records at depth
\* max_depth and left out a dictionary word that a longer ladder reaches
C7_Witness ==
    /\ fp_pc = "done"
    /\ fp_start \in words
    /\ \E i \in 1..Len(fp_out) : fp_out[i].depth = fp_max_depth
    /\ \E w \in words \ {fp_start} :
          /\ \A i \in 1..Len(fp_out) : fp_out[i].word # w
          /\ \E wd \in ExpectedRecords(fp_start, words, MaxDepth) :
                wd[1] = w /\ wd[2] > fp_max_depth

\* C8: the records are printed in non-decreasing depth order.
C8_DepthsNonDecreasing ==
    \A i, j \in 1..Len(fp_out) : i < j => fp_out[i].depth <= fp_out[j].depth

\* records of two different depths were printed
C8_Witness ==
    \E i, j \in 1..Len(fp_out) : i < j /\ fp_out[i].depth < fp_out[j].depth

\* C9 as stated: from a starting word that is not in the dictionary
\* find_paths prints no record.
C9_UnknownStartPrintsNothing ==
    (fp_pc # "idle" /\ fp_start \notin words) => fp_out = <<>>

\* C9 amended: from a starting word that is not in the dictionary
\* find_paths prints one record for each dictionary word that a ladder of
\* 1..max_depth edges reaches from it; it prints nothing exactly when
\* max_depth is 0 or no transformation of the start is in the dictionary.
C9_UnknownStartPrintsReachableWords ==
    (fp_pc = "done" /\ fp_start \notin words) =>
        /\ PrintedRecords = ExpectedRecords(fp_start, words, fp_max_depth)
        /\ \A i, j \in 1..Len(fp_out) : fp_out[i].word = fp_out[j].word => i = j
        /\ fp_out = <<>>
              <=> (fp_max_depth = 0 \/ finder_transformations(fp_start) \cap words = {})

\* a finished run from a word outside the dictionary that printed a record
\* at depth 2
C9_Witness ==
    /\ fp_pc = "done"
    /\ fp_start \notin words
    /\ \E i \in 1..Len(fp_out) : fp_out[i].depth = 2

(***************************************************************************)
(* A whole find_paths run under one fixed iteration order.                 *)
(***************************************************************************)
\* one of the orders in which Python may iterate the set S: the sorted one
RECURSIVE SortedOrder(_)
SortedOrder(S) ==
    IF S = {} THEN <<>>
    ELSE LET first == CHOOSE x \in S : \A y \in S : StrLeq(x, y)
         IN  <<first>> \o SortedOrder(S \ {first})

\* "while queue" of find_paths run to its end, every neighbor set iterated
\* in sorted order: the records printed
RECURSIVE find_paths_loop(_, _, _, _, _)
find_paths_loop(queue, paths, max_depth, dict, out) ==
    IF queue = <<>> THEN out
    ELSE \* the CHOOSE names the result of the iteration once
         LET current_word == dequeue(queue).item.word
             r == CHOOSE x \in {find_paths_iteration(
                                   queue, paths, max_depth, dict,
                                   SortedOrder(valid_transformations(current_word, dict)))} :
                      TRUE
         IN  find_paths_loop(r.queue, r.paths, max_depth, dict, out \o r.printed)

\* find_paths(starting_word, max_depth) with every neighbor set iterated in
\* sorted order: the records printed
find_paths_sorted(starting_word, max_depth, dict) ==
    find_paths_loop(<<[word |-> starting_word, path |-> <<starting_word>>]>>,
                    paths_put(<<>>, starting_word, 1, {<<starting_word>>}),
                    max_depth, dict, <<>>)

\* find_paths_sorted on the dictionaries, starting words and depths of the
\* model, tabulated once
SortedRunTable ==
    [k \in (SUBSET FinderUniverse) \X FinderUniverse \X (0..MaxDepth) |->
        find_paths_sorted(k[2], k[3], k[1])] @@ <<>>

\* the set of (word, depth, path set) records in a sequence of records
RecordSet(out) == {out[i] : i \in 1..Len(out)}

\* C12: a finished find_paths run printed the same set of (word, depth,
\* path set) records as the run with the same start, max_depth and
\* dictionary that iterates every neighbor set in sorted order: the set of
\* records does not depend on the iteration order.
C12_RecordsIndependentOfIterationOrder ==
    fp_pc = "done" =>
        RecordSet(fp_out) = RecordSet(SortedRunTable[<<words, fp_start, fp_max_depth>>])

\* distance(start, w) on a fresh index over the dictionary dict with
\* possessive toggling enabled, for the dictionaries and words of the path
\* finder, tabulated once
FreshDistanceTable ==
    [k \in (SUBSET FinderUniverse) \X FinderUniverse \X FinderUniverse |->
        distance(k[2], k[3], EmptyCache, k[1], TRUE, SortedOrder(k[1])).ret] @@ <<>>

\* C13: a finished find_paths(start, max_depth) run printed a dictionary
\* word w with depth d, 1 <= d <= max_depth, if and only if distance(start, w)
\* on a fresh index over the same dictionary with possessive toggling
\* enabled is d.
C13_FinderAgreesWithDistanceIndex ==
    fp_pc = "done" =>
        \A w \in words : \A d \in 1..fp_max_depth :
            (<<w, d>> \in PrintedRecords)
                <=> (FreshDistanceTable[<<words, fp_start, w>>] = Finite(d))

\* p is a path the finder may store for the word w: it starts at the
\* starting word, ends at w, and every word after the first is a dictionary
\* word among the transformations of the word before it
IsStoredPath(p, w) ==
    /\ Len(p) >= 1
    /\ p[1] = fp_start
    /\ p[Len(p)] = w
    /\ \A i \in 2..Len(p) :
          p[i] \in words /\ p[i] \in finder_transformations(p[i - 1])

PathsMapWellFormed ==
    \A w \in DOMAIN fp_paths :
        \A p \in fp_paths[w].paths_set :
            Len(p) = fp_paths[w].min_length /\ IsStoredPath(p, w)

\* a step of the run found a path to w shorter than any recorded for it (the
\* entry is new, or its minimal length went down)
FoundShorter(w) ==
    /\ fp_pc = "running"
    /\ w \in DOMAIN fp_paths'
    /\ \/ w \notin DOMAIN fp_paths
       \/ fp_paths'[w].min_length < fp_paths[w].min_length

\* C18: at every step of find_paths every path stored for a word has the
\* recorded minimal length, starts at the starting word, ends at that word
\* and steps through dictionary words by one transformation each; and a
\* step that finds a path shorter than those recorded for a word leaves the
\* single new path as its path set.
C18_StoredPathsAreMinimalLadders ==
    /\ []PathsMapWellFormed
    /\ [][\A w \in FinderUniverse :
             FoundShorter(w) => Cardinality(fp_paths'[w].paths_set) = 1]_vars

\* a word has two stored paths of three words each
C18_Witness ==
    \E w \in DOMAIN fp_paths :
        /\ fp_paths[w].min_length = 3
        /\ Cardinality(fp_paths[w].paths_set) >= 2

\* every queue entry carries a path of the minimal length recorded for its
\* word, so no entry is stale when it is dequeued
QueueEntriesAreMinimal ==
    \A i \in 1..Len(fp_queue) :
        /\ fp_queue[i].word \in DOMAIN fp_paths
        /\ Len(fp_queue[i].path) = fp_paths[fp_queue[i].word].min_length

\* C19: the path set recorded for a word does not change once the word's
\* record is printed (the printed path set is the recorded one in every
\* later state of the run), and no queue entry is discarded as stale: every
\* entry is of the minimal length recorded for its word.
C19_PathSetFinalAtEmission ==
    /\ \A i \in 1..Len(fp_out) :
          /\ fp_out[i].word \in DOMAIN fp_paths
          /\ fp_paths[fp_out[i].word].paths_set = fp_out[i].paths
          /\ fp_paths[fp_out[i].word].min_length = fp_out[i].depth + 1
    /\ ~fp_stale
    /\ QueueEntriesAreMinimal

\* a finished run that printed a record carrying two paths and went on to
\* expand words after that
C19_Witness ==
    /\ fp_pc = "done"
    /\ \E i \in 1..Len(fp_out) :
          /\ Cardinality(fp_out[i].paths) >= 2
          /\ \E j \in 1..Len(fp_out) : j > i /\ fp_out[j].depth > fp_out[i].depth

====
